---- MODULE Spec2Model ----
(***************************************************************************)
(* A model of IWXMVM's CaptureManager                                      *)
(* (src/core/src/Components/CaptureManager.cpp): the capture session,      *)
(* its GPU resources and encoder pipes, the per-frame readback and the     *)
(* multi-pass cadence.                                                     *)
(*                                                                         *)
(* Everything runs on the one render thread.  A frame of the render loop   *)
(* is: the game frame (OnGameFrame decides how far the timeline moves),    *)
(* PrepareFrame, the render, CaptureFrame.  The loop position is pc;       *)
(* StartCapture, StopCapture, ToggleCapture, the user's configuration and  *)
(* the rewinding mode act between two frames (pc = "idle").                *)
(*                                                                         *)
(* Handles are numbers: 0 is the null pointer, a pipe is 1..MaxPipes, a    *)
(* surface or render target is 1..MaxGpu, the device's backbuffer is       *)
(* BackBufferSurface.  What the process really holds is kept next to the   *)
(* pointers: openPipes, liveGpu, bbRefs.                                   *)
(*                                                                         *)
(* Spec is the manager under any use; SpecE2E the single-stream run of     *)
(* ticks 10..100; SpecCmd the command builder over output formats, codec   *)
(* values and directory contents; SpecLive the render loop that keeps      *)
(* running.                                                                *)
(***************************************************************************)
EXTENDS Integers, FiniteSets, Sequences, TLC

\* ---- bounds of the model
MaxTick == 2
MaxPasses == 3
MaxFrames == 6
MaxPipes == 3
MaxGpu == 4
MaxRefs == 2
NativeWidth == 2
NativeHeight == 1

\* ---- program constants
NULL == 0
DefaultFramerate == 250

Framerates == {25, 30}
BackBufferSurface == MaxGpu + 1
PipeIds == 1..MaxPipes
GpuIds == 1..MaxGpu
AllElements == 0..(MaxPasses - 1)

VARIABLES
    \* CaptureManager fields
    captureSettings, isCapturing, capturedFrameCount, framePrepared,
    ffmpegNotFound, pipe, tempSurface, backBuffer, downsampledRenderTarget,
    depthSurface, depthShader, screenDimensions,
    \* collaborators: timeline, rewinding, renderer, process and device
    tick, rewinding, visibleElements, drawnPass, openPipes, liveGpu, bbRefs,
    \* the render loop's position
    pc,
    \* observation of the run: the frames written in the session, the write and
    \* the pass draw of the last operation, handle misuse, the last operation
    \* of the manager and how it ended, the PrepareFrame/CaptureFrame pairs of
    \* the session, the pipes the last StartCapture opened, the milliseconds
    \* OnGameFrame granted the current frame (-1: not asked)
    framesWritten, lastWrite, misuse, lastOp, lastResult, pairs, opened, hold,
    \* the names of the files in the output directory, and the commands the
    \* last StartCapture handed to _popen, in order
    files, commands

managerVars == <<captureSettings, isCapturing, capturedFrameCount, framePrepared,
                 ffmpegNotFound, pipe, tempSurface, backBuffer,
                 downsampledRenderTarget, depthSurface, depthShader,
                 screenDimensions>>
worldVars == <<tick, rewinding, visibleElements, drawnPass, openPipes, liveGpu, bbRefs>>
ghostVars == <<framesWritten, lastWrite, misuse, lastOp, lastResult, pairs, opened, hold>>
vars == <<managerVars, worldVars, pc, ghostVars, files, commands>>

\* ---- settings
Passes(n) == [i \in 0..(n - 1) |-> [elements |-> {i}, pipe |-> NULL]]

OutputFormats == {"Video", "CameraData", "ImageSequence"}

\* the five enumerators of VideoCodec, a value outside them, and the empty
\* optional
ListedCodecs == {"Prores4444XQ", "Prores4444", "Prores422HQ", "Prores422", "Prores422LT"}
VideoCodecs == ListedCodecs \cup {"OutOfRange", "Absent"}

DefaultSettings ==
    [startTick |-> 0, endTick |-> 0, outputFormat |-> "Video",
     videoCodec |-> "Prores4444", framerate |-> DefaultFramerate, passes |-> Passes(0)]

PassCount == Cardinality(DOMAIN captureSettings.passes)

MultiPassEnabled == PassCount > 0

\* ---- handle allocation: the i-th (0-based) free id of a pool
NthFree(pool, used, i) ==
    CHOOSE x \in pool \ used : Cardinality({y \in pool \ used : y < x}) = i

FreeCount(pool, used) == Cardinality(pool \ used)

NoWrite == [pipe |-> NULL, bytes |-> 0]

InitWith(settings, dir, at) ==
    /\ captureSettings = settings
    /\ files = dir
    /\ commands = <<>>
    /\ isCapturing = FALSE
    /\ capturedFrameCount = 0
    /\ framePrepared = FALSE
    /\ ffmpegNotFound = FALSE
    /\ pipe = NULL
    /\ tempSurface = NULL
    /\ backBuffer = NULL
    /\ downsampledRenderTarget = NULL
    /\ depthSurface = NULL
    /\ depthShader = NULL
    /\ screenDimensions = [width |-> 0, height |-> 0]
    /\ tick = 0
    /\ rewinding = FALSE
    /\ visibleElements = AllElements
    /\ drawnPass = -1
    /\ openPipes = {}
    /\ liveGpu = {}
    /\ bbRefs = 0
    /\ pc = at
    /\ framesWritten = 0
    /\ lastWrite = NoWrite
    /\ misuse = FALSE
    /\ lastOp = "none"
    /\ lastResult = "none"
    /\ pairs = 0
    /\ opened = 0
    /\ hold = -1

\* the manager as constructed, before Initialize
Init == InitWith(DefaultSettings, {}, "init")

\* ---- StopCapture (lines 397-451), from the field values the caller has
\* reached: p the anchor pipe, ps the passes, ts/bb/rt the surface, backbuffer
\* and render-target pointers, open/live/refs what the process holds, mis the
\* misuse seen so far.
PassPipes(ps) == {ps[i].pipe : i \in DOMAIN ps} \ {NULL}

\* the pipes StopCapture closes: the anchor pipe and every pass's pipe, when
\* not null (lines 405-420)
ClosedBy_AnchorOnly(p, ps) == {p} \ {NULL}

ClosedBy(p, ps) == ({p} \ {NULL}) \cup PassPipes(ps)

\* a pointer after its handle was closed or released (lines 409, 418, 425,
\* 431, 437, 443, 449)
Cleared_Kept(h) == h

Cleared(h) == NULL

ReleasedBy(ts, rt) == ({ts, rt, depthSurface, depthShader}) \ {NULL}

StopCaptureFrom(p, ps, ts, bb, rt, open, live, refs, mis) ==
    /\ isCapturing' = FALSE
    /\ visibleElements' = AllElements
    /\ framePrepared' = FALSE
    /\ pipe' = Cleared(p)
    /\ captureSettings' =
          [captureSettings EXCEPT
              !.passes = [i \in DOMAIN ps |-> [ps[i] EXCEPT !.pipe = Cleared(ps[i].pipe)]]]
    /\ openPipes' = open \ ClosedBy(p, ps)
    /\ tempSurface' = Cleared(ts)
    /\ backBuffer' = Cleared(bb)
    /\ bbRefs' = IF bb # NULL /\ refs > 0 THEN refs - 1 ELSE refs
    /\ downsampledRenderTarget' = Cleared(rt)
    /\ depthSurface' = Cleared(depthSurface)
    /\ depthShader' = Cleared(depthShader)
    /\ liveGpu' = live \ ReleasedBy(ts, rt)
    /\ misuse' = \/ mis
                 \/ ~(ClosedBy(p, ps) \subseteq open)
                 \/ ~(ReleasedBy(ts, rt) \subseteq live)
                 \/ (bb # NULL /\ refs = 0)

StopCapture ==
    /\ pc = "idle"
    /\ hold' = hold
    /\ UNCHANGED files
    /\ commands' = <<>>
    /\ StopCaptureFrom(pipe, captureSettings.passes, tempSurface, backBuffer,
                       downsampledRenderTarget, openPipes, liveGpu, bbRefs, misuse)
    /\ lastOp' = "StopCapture"
    /\ lastResult' = IF lastOp = "StopCapture" THEN "again" ELSE "stopped"
    /\ drawnPass' = -1
    /\ lastWrite' = NoWrite
    /\ opened' = 0
    /\ UNCHANGED <<capturedFrameCount, ffmpegNotFound, screenDimensions, tick,
                   rewinding, pc, framesWritten, pairs>>

\* ---- Initialize (lines 49-119): the backbuffer is queried for the native
\* resolution and released; a failed query or description returns early.
InitializeOutcomes == {"ok", "backbuffer", "desc"}

InitializeWith(o) ==
    /\ pc = "init"
    /\ hold' = hold
    /\ UNCHANGED <<files, commands>>
    /\ pc' = "configure"
    /\ backBuffer' = IF o = "desc" THEN BackBufferSurface ELSE NULL
    /\ bbRefs' = IF o = "desc" THEN bbRefs + 1 ELSE bbRefs
    /\ captureSettings' = IF o = "ok" THEN DefaultSettings ELSE captureSettings
    /\ lastOp' = "Initialize"
    /\ lastResult' = o
    /\ UNCHANGED <<isCapturing, capturedFrameCount, framePrepared, ffmpegNotFound,
                   pipe, tempSurface, downsampledRenderTarget, depthSurface,
                   depthShader, screenDimensions, tick, rewinding, visibleElements,
                   drawnPass, openPipes, liveGpu, framesWritten, lastWrite, misuse, pairs, opened>>

Initialize == \E o \in InitializeOutcomes : InitializeWith(o)

\* ---- the user's configuration of the settings, before the first session
Configure ==
    /\ pc = "configure"
    /\ hold' = hold
    /\ UNCHANGED <<files, commands>>
    /\ pc' = "idle"
    /\ \E s \in 0..MaxTick, e \in 0..MaxTick, f \in Framerates, n \in 0..MaxPasses :
          captureSettings' = [captureSettings EXCEPT !.startTick = s, !.endTick = e,
                                                     !.framerate = f,
                                                     !.passes = Passes(n)]
    /\ lastOp' = "none"
    /\ lastResult' = "none"
    /\ UNCHANGED <<isCapturing, capturedFrameCount, framePrepared, ffmpegNotFound,
                   pipe, tempSurface, backBuffer, downsampledRenderTarget,
                   depthSurface, depthShader, screenDimensions, worldVars,
                   framesWritten, lastWrite, misuse, pairs, opened>>

\* ---- GetFFmpegCommand (lines 229-295).  A command is a record of what the
\* format string is filled with: the encoder options (kind), the ProRes
\* profile and pixel format, the destination file; warned tells that
\* LOG_ERROR was called.  An empty optional makes videoCodec.value() throw
\* std::bad_optional_access (line 248).
FileName_ZeroSuffix(passIndex, i) ==
    "Pass " \o ToString(passIndex) \o "(" \o ToString(i) \o ").mov"

FileName(passIndex, i) ==
    IF i = 0 THEN "Pass " \o ToString(passIndex) \o ".mov"
    ELSE "Pass " \o ToString(passIndex) \o "(" \o ToString(i) \o ").mov"

\* the loop of lines 279-283, entered with the counter at i
RECURSIVE UniqueFileName(_, _, _)
UniqueFileName(dir, passIndex, i) ==
    IF FileName(passIndex, i) \in dir
    THEN UniqueFileName(dir, passIndex, i + 1)
    ELSE FileName(passIndex, i)

Profile(codec) ==
    CASE codec = "Prores4444XQ" -> 5
      [] codec = "Prores4444"   -> 4
      [] codec = "Prores422HQ"  -> 3
      [] codec = "Prores422"    -> 2
      [] codec = "Prores422LT"  -> 1
      [] OTHER                  -> 4

PixelFormat(codec) ==
    IF codec \in {"Prores422HQ", "Prores422", "Prores422LT"}
    THEN "yuv422p10le" ELSE "yuv444p10le"

EmptyCommand ==
    [kind |-> "empty", profile |-> 0, pixelFormat |-> "", file |-> "", warned |-> TRUE]

BadOptionalAccess ==
    [kind |-> "bad_optional_access", profile |-> 0, pixelFormat |-> "", file |-> "",
     warned |-> FALSE]

\* videoCodec.value() is reached for a Video command only (line 248)
CodecValueThrows(settings) ==
    settings.outputFormat = "Video" /\ settings.videoCodec = "Absent"

GetFFmpegCommand(settings, dir, passIndex) ==
    CASE settings.outputFormat = "ImageSequence" ->
            [kind |-> "tga", profile |-> 0, pixelFormat |-> "",
             file |-> "output_" \o ToString(passIndex) \o "_%06d.tga", warned |-> FALSE]
      [] settings.outputFormat = "Video" ->
            IF CodecValueThrows(settings) THEN BadOptionalAccess
            ELSE [kind |-> "prores", profile |-> Profile(settings.videoCodec),
                  pixelFormat |-> PixelFormat(settings.videoCodec),
                  file |-> UniqueFileName(dir, passIndex, 0),
                  warned |-> settings.videoCodec \notin ListedCodecs]
      [] OTHER -> EmptyCommand

\* the first command built leaves StartCapture by the exception
CommandThrows == CodecValueThrows(captureSettings)

\* ---- StartCapture (lines 297-395).  fail names the step that fails
\* ("none": every step succeeds), failAt the pass whose pipe fails to open,
\* nulls whether a failed creation call clears its out-pointer or leaves it.
StartFailures == {"none", "backbuffer", "desc", "surface", "target", "ffmpeg", "pipe"}

StepsBefore(fail) ==
    CASE fail = "backbuffer" -> {}
      [] fail = "desc"       -> {"backbuffer"}
      [] fail = "surface"    -> {"backbuffer", "desc"}
      [] fail = "target"     -> {"backbuffer", "desc", "surface"}
      [] fail = "ffmpeg"     -> {"backbuffer", "desc", "surface", "target"}
      [] OTHER               -> {"backbuffer", "desc", "surface", "target", "ffmpeg"}

PipesWanted == IF PassCount = 0 THEN 1 ELSE PassCount

\* the tick guard (line 299)
TickGuardRejects_Strict == captureSettings.startTick > captureSettings.endTick

TickGuardRejects == captureSettings.startTick >= captureSettings.endTick

\* every failed step returns through StopCapture (lines 322-390)
Aborts_IgnorePipe(fail) == fail \notin {"none", "pipe"}

Aborts(fail) == fail # "none"

\* the ffmpegNotFound flag after a StartCapture that passed the tick guard
\* (lines 355-362): set when the executable is missing, cleared when it is
\* found, left alone when the attempt ended before the test
FfmpegNotFoundAfter_Reset(fail) == fail = "ffmpeg"

FfmpegNotFoundAfter(fail) ==
    IF fail = "ffmpeg" THEN TRUE
    ELSE IF "ffmpeg" \in StepsBefore(fail) THEN FALSE
    ELSE ffmpegNotFound

\* how the call ended, for the observer
StartResult(fail) ==
    CASE fail = "none"   -> "ok"
      [] fail = "ffmpeg" -> "noencoder"
      [] fail = "pipe"   -> "nopipe"
      [] OTHER           -> "failed"

\* the device and the process can only hand out what they still have
StartFeasible(fail, failAt) ==
    /\ "backbuffer" \in StepsBefore(fail) => bbRefs < MaxRefs
    /\ "surface" \in StepsBefore(fail) => FreeCount(GpuIds, liveGpu) >= 1
    /\ "target" \in StepsBefore(fail) => FreeCount(GpuIds, liveGpu) >= 2
    /\ (fail = "none" /\ ~CommandThrows) => FreeCount(PipeIds, openPipes) >= PipesWanted
    /\ fail = "pipe" => failAt < PipesWanted /\ FreeCount(PipeIds, openPipes) >= failAt
    /\ fail # "pipe" => failAt = 0

\* passes after the pipes of passes 0..k-1 were opened and, when k < PassCount,
\* the open of pass k returned null (line 384)
PassesOpened(ps, open, k) ==
    [i \in DOMAIN ps |->
        IF i < k THEN [ps[i] EXCEPT !.pipe = NthFree(PipeIds, open, i)]
        ELSE IF i = k THEN [ps[i] EXCEPT !.pipe = NULL]
        ELSE ps[i]]

NewPipes(open, k) == {NthFree(PipeIds, open, i) : i \in 0..(k - 1)}

StartCaptureWith(fail, failAt, nulls) ==
    IF TickGuardRejects
    THEN /\ lastResult' = "rejected"
         /\ opened' = 0
         /\ commands' = <<>>
         /\ UNCHANGED <<managerVars, worldVars, framesWritten, misuse, pairs>>
    ELSE
      LET done == StepsBefore(fail)
          out(old) == IF nulls THEN NULL ELSE old
          bb1 == IF "backbuffer" \in done THEN BackBufferSurface ELSE out(backBuffer)
          refs1 == IF "backbuffer" \in done THEN bbRefs + 1 ELSE bbRefs
          ts1 == IF "surface" \in done THEN NthFree(GpuIds, liveGpu, 0)
                 ELSE IF fail = "surface" THEN out(tempSurface) ELSE tempSurface
          live1 == IF "surface" \in done THEN liveGpu \cup {ts1} ELSE liveGpu
          rt1 == IF "target" \in done THEN NthFree(GpuIds, live1, 0)
                 ELSE IF fail = "target" THEN out(downsampledRenderTarget)
                 ELSE downsampledRenderTarget
          live2 == IF "target" \in done THEN live1 \cup {rt1} ELSE live1
          threw == "ffmpeg" \in done /\ CommandThrows
          piped == "ffmpeg" \in done /\ ~threw
          k == IF ~piped THEN 0
               ELSE IF fail = "none" THEN PipesWanted ELSE failAt
          asked == IF ~piped THEN 0
                   ELSE IF fail = "none" THEN PipesWanted ELSE failAt + 1
          pipe1 == IF piped /\ PassCount = 0
                   THEN (IF fail = "none" THEN NthFree(PipeIds, openPipes, 0) ELSE NULL)
                   ELSE pipe
          ps1 == IF piped /\ PassCount > 0
                 THEN PassesOpened(captureSettings.passes, openPipes, k)
                 ELSE captureSettings.passes
          open1 == openPipes \cup NewPipes(openPipes, k)
      IN  /\ StartFeasible(fail, failAt)
          /\ tick' = captureSettings.startTick
          /\ capturedFrameCount' = 0
          /\ pairs' = 0
          /\ screenDimensions' = IF "target" \in done
                                 THEN [width |-> NativeWidth, height |-> NativeHeight]
                                 ELSE screenDimensions
          /\ ffmpegNotFound' = FfmpegNotFoundAfter(fail)
          /\ framesWritten' = 0
          /\ opened' = k
          /\ commands' = [i \in 1..asked |-> GetFFmpegCommand(captureSettings, files, i - 1)]
          /\ lastResult' = IF threw THEN "threw" ELSE StartResult(fail)
          /\ IF threw \/ ~Aborts(fail)
             THEN /\ isCapturing' = IF threw THEN isCapturing ELSE TRUE
                  /\ pipe' = pipe1
                  /\ captureSettings' = [captureSettings EXCEPT !.passes = ps1]
                  /\ tempSurface' = ts1
                  /\ backBuffer' = bb1
                  /\ downsampledRenderTarget' = rt1
                  /\ openPipes' = open1
                  /\ liveGpu' = live2
                  /\ bbRefs' = refs1
                  /\ UNCHANGED <<framePrepared, visibleElements, depthSurface,
                                 depthShader, misuse>>
             ELSE StopCaptureFrom(pipe1, ps1, ts1, bb1, rt1, open1, live2, refs1, misuse)

\* of the choices that lead to the same run, one is taken
StartChoice(fail, failAt, nulls) ==
    /\ TickGuardRejects => fail = "none" /\ failAt = 0
    /\ CommandThrows => fail # "pipe"
    /\ ~nulls => \/ fail = "backbuffer" /\ backBuffer # NULL
                 \/ fail = "surface" /\ tempSurface # NULL
                 \/ fail = "target" /\ downsampledRenderTarget # NULL

StartCaptureCall(fail, failAt, nulls) ==
    /\ pc = "idle"
    /\ hold' = hold
    /\ UNCHANGED files
    /\ StartCaptureWith(fail, failAt, nulls)
    /\ lastOp' = "StartCapture"
    /\ drawnPass' = -1
    /\ lastWrite' = NoWrite
    /\ UNCHANGED <<rewinding, pc>>

StartCapture ==
    \E fail \in StartFailures, failAt \in 0..(MaxPasses - 1), nulls \in BOOLEAN :
        StartChoice(fail, failAt, nulls) /\ StartCaptureCall(fail, failAt, nulls)

\* ---- ToggleCapture (lines 211-221)
ToggleCapture ==
    /\ pc = "idle"
    /\ hold' = hold
    /\ UNCHANGED files
    /\ IF ~isCapturing
       THEN /\ \E fail \in StartFailures, failAt \in 0..(MaxPasses - 1), nulls \in BOOLEAN :
                  StartChoice(fail, failAt, nulls) /\ StartCaptureWith(fail, failAt, nulls)
            /\ lastOp' = "StartCapture"
       ELSE /\ StopCaptureFrom(pipe, captureSettings.passes, tempSurface, backBuffer,
                               downsampledRenderTarget, openPipes, liveGpu, bbRefs, misuse)
            /\ lastOp' = "StopCapture"
            /\ lastResult' = "stopped"
            /\ opened' = 0
            /\ commands' = <<>>
            /\ UNCHANGED <<capturedFrameCount, ffmpegNotFound, screenDimensions, tick,
                           framesWritten, pairs>>
    /\ drawnPass' = -1
    /\ lastWrite' = NoWrite
    /\ UNCHANGED <<rewinding, pc>>

\* ---- OnGameFrame (lines 199-209): the milliseconds the timeline moves in
\* the coming game frame
OnGameFrame_LastPass ==
    IF MultiPassEnabled
    THEN (IF capturedFrameCount % PassCount = PassCount - 1
          THEN 1000 \div captureSettings.framerate ELSE 0)
    ELSE 1000 \div captureSettings.framerate

OnGameFrame_EveryPass == 1000 \div captureSettings.framerate

OnGameFrame ==
    IF MultiPassEnabled
    THEN (IF capturedFrameCount % PassCount = 0
          THEN 1000 \div captureSettings.framerate ELSE 0)
    ELSE 1000 \div captureSettings.framerate

\* ---- the game frame of the render loop: while capturing the timeline moves
\* one simulation step when OnGameFrame grants time and holds otherwise.
\* Outside a capture the tick is left alone: only a capture reads it, and
\* StartCapture seeks first.  The frame's observations start empty.
TimelineStep(ms) == IF ms > 0 THEN 1 ELSE 0

GameFrameUpTo(lastTick) ==
    /\ pc = "idle"
    /\ pc' = "prepare"
    /\ IF isCapturing
       THEN /\ tick + TimelineStep(OnGameFrame) <= lastTick
            /\ tick' = tick + TimelineStep(OnGameFrame)
       ELSE tick' = tick
    /\ hold' = IF isCapturing THEN OnGameFrame ELSE -1
    /\ UNCHANGED files
    /\ commands' = <<>>
    /\ drawnPass' = -1
    /\ lastWrite' = NoWrite
    /\ opened' = 0
    /\ lastOp' = "none"
    /\ lastResult' = "none"
    /\ UNCHANGED <<managerVars, rewinding, visibleElements, openPipes, liveGpu,
                   bbRefs, framesWritten, misuse, pairs>>

GameFrame == GameFrameUpTo(MaxTick + 1)

\* ---- PrepareFrame (lines 177-191)
PrepareFrame ==
    /\ pc = "prepare"
    /\ hold' = hold
    /\ UNCHANGED <<files, commands>>
    /\ pc' = "capture"
    /\ IF ~isCapturing
       THEN UNCHANGED <<visibleElements, framePrepared>>
       ELSE /\ visibleElements' =
                  IF MultiPassEnabled
                  THEN captureSettings.passes[capturedFrameCount % PassCount].elements
                  ELSE visibleElements
            /\ framePrepared' = TRUE
    /\ lastOp' = "none"
    /\ lastResult' = "none"
    /\ UNCHANGED <<captureSettings, isCapturing, capturedFrameCount, ffmpegNotFound,
                   pipe, tempSurface, backBuffer, downsampledRenderTarget,
                   depthSurface, depthShader, screenDimensions, tick, rewinding,
                   drawnPass, openPipes, liveGpu, bbRefs, framesWritten, lastWrite, misuse,
                   pairs, opened>>

\* ---- CaptureFrame (lines 121-175).  gpu names the GPU call that fails
\* ("ok": none).
GpuOutcomes == {"ok", "copy", "resolve", "lock", "unlock"}

PassIndex_Next == (capturedFrameCount + 1) % PassCount

PassIndex == capturedFrameCount % PassCount

OutputPipe_Anchor == pipe

OutputPipe == IF MultiPassEnabled THEN captureSettings.passes[PassIndex].pipe ELSE pipe

SurfaceByteSize == screenDimensions.width * screenDimensions.height * 4

StopAfterFrame(mis) ==
    StopCaptureFrom(pipe, captureSettings.passes, tempSurface, backBuffer,
                    downsampledRenderTarget, openPipes, liveGpu, bbRefs, mis)

TickRangeEnded_Inclusive == ~rewinding /\ tick >= captureSettings.endTick

TickRangeEnded_IgnoreRewinding == tick > captureSettings.endTick

TickRangeEnded == ~rewinding /\ tick > captureSettings.endTick

\* capturedFrameCount++ (line 161)
FrameCounted_Skip(n) == n + 2

FrameCounted(n) == n + 1

\* the frame is written once the copy, the resolve and the lock succeeded
\* (lines 136-159)
WritesFrame_DespiteLock(gpu) == gpu \notin {"copy", "resolve"}

WritesFrame(gpu) == gpu \notin {"copy", "resolve", "lock"}

CaptureFrameWith(gpu) ==
    /\ drawnPass' = IF MultiPassEnabled THEN PassIndex ELSE drawnPass
    /\ IF ~WritesFrame(gpu)
       THEN /\ StopAfterFrame(misuse)
            /\ UNCHANGED <<capturedFrameCount, framesWritten, lastWrite>>
       ELSE /\ framesWritten' = framesWritten + 1
            /\ lastWrite' = [pipe |-> OutputPipe, bytes |-> SurfaceByteSize]
            /\ capturedFrameCount' = FrameCounted(capturedFrameCount)
            /\ IF gpu = "unlock" \/ TickRangeEnded
               THEN StopAfterFrame(misuse \/ OutputPipe \notin openPipes)
               ELSE /\ framePrepared' = FALSE
                    /\ misuse' = (misuse \/ OutputPipe \notin openPipes)
                    /\ UNCHANGED <<captureSettings, isCapturing, pipe, tempSurface,
                                   backBuffer, downsampledRenderTarget, depthSurface,
                                   depthShader, visibleElements, openPipes, liveGpu,
                                   bbRefs>>
    /\ lastResult' = IF gpu \in {"copy", "resolve", "lock"} THEN "failed" ELSE gpu
    /\ pairs' = pairs + 1
    /\ UNCHANGED <<ffmpegNotFound, screenDimensions, tick, rewinding, opened>>

\* the render loop captures the frame it prepared, while capturing
CaptureFrameCall(gpu) ==
    /\ pc = "capture"
    /\ hold' = -1
    /\ UNCHANGED <<files, commands>>
    /\ isCapturing /\ framePrepared
    /\ CaptureFrameWith(gpu)
    /\ pc' = "idle"
    /\ lastOp' = "CaptureFrame"

CaptureFrame ==
    /\ capturedFrameCount < MaxFrames
    /\ \E gpu \in GpuOutcomes : CaptureFrameCall(gpu)

\* a rendered frame that is not captured
EndFrame ==
    /\ pc = "capture"
    /\ hold' = -1
    /\ UNCHANGED <<files, commands>>
    /\ ~(isCapturing /\ framePrepared)
    /\ pc' = "idle"
    /\ lastOp' = "none"
    /\ lastResult' = "none"
    /\ UNCHANGED <<managerVars, worldVars, framesWritten, lastWrite, misuse, pairs,
                   opened>>

\* ---- the rewinding mode turns on or off during a capture
SetRewinding ==
    /\ pc = "idle"
    /\ hold' = hold
    /\ UNCHANGED <<files, commands>>
    /\ isCapturing
    /\ rewinding' = ~rewinding
    /\ lastOp' = "none"
    /\ lastResult' = "none"
    /\ UNCHANGED <<managerVars, tick, visibleElements, drawnPass, openPipes, liveGpu,
                   bbRefs, pc, framesWritten, lastWrite, misuse, pairs, opened>>

Next ==
    \/ Initialize
    \/ Configure
    \/ StartCapture
    \/ StopCapture
    \/ ToggleCapture
    \/ GameFrame
    \/ PrepareFrame
    \/ CaptureFrame
    \/ EndFrame
    \/ SetRewinding

Spec == Init /\ [][Next]_vars

\* ---- the single-stream run from E2EStartTick to E2EEndTick: initialized and
\* configured, no passes, every call of the device and the process succeeds,
\* rewinding never turns on, nobody stops the session by hand.
E2EStartTick == 10
E2EEndTick == 100
E2EFramerate == 25

E2ESettings ==
    [startTick |-> E2EStartTick, endTick |-> E2EEndTick, outputFormat |-> "Video",
     videoCodec |-> "Prores4444", framerate |-> E2EFramerate, passes |-> Passes(0)]

InitE2E == InitWith(E2ESettings, {}, "idle")

E2EStartCapture == ~isCapturing /\ StartCaptureCall("none", 0, TRUE)

E2EGameFrame == GameFrameUpTo(E2EEndTick + 1)

E2ECaptureFrame == CaptureFrameCall("ok")

NextE2E ==
    \/ E2EStartCapture
    \/ E2EGameFrame
    \/ PrepareFrame
    \/ E2ECaptureFrame
    \/ EndFrame

SpecE2E == InitE2E /\ [][NextE2E]_vars

\* ---- the command builder at work: a configured manager with any output
\* format, any codec value and any number of passes, over an output directory
\* that holds any of the names of the passes of DirPasses up to suffix
\* MaxSuffix.  The directory matters to a Video command only, and the file
\* name and the profile of a command do not depend on each other: the
\* directory varies under codec Prores422, the codec over the empty directory.
\* Sessions are started and stopped by hand.
MaxSuffix == 2
DirPasses == 0..1
DirNames == {FileName(p, i) : p \in DirPasses, i \in 0..MaxSuffix}

CmdSettings ==
    {[startTick |-> 0, endTick |-> 1, outputFormat |-> f, videoCodec |-> c,
      framerate |-> DefaultFramerate, passes |-> Passes(n)] :
        f \in OutputFormats, c \in VideoCodecs, n \in 0..MaxPasses}

InitCmd ==
    \E s \in CmdSettings, dir \in SUBSET DirNames :
        /\ s.outputFormat # "Video" => dir = {}
        /\ dir # {} => s.videoCodec = "Prores422"
        /\ InitWith(s, dir, "idle")

NextCmd ==
    \/ ToggleCapture
    \/ StopCapture

SpecCmd == InitCmd /\ [][NextCmd]_vars

\* ---- the render loop that keeps running: a configured manager whose tick
\* range passes the guard and whose session fits the frame bound, at the
\* default framerate or at one above 1000; every GPU call of CaptureFrame
\* succeeds, rewinding stays off.  The loop's steps are taken whenever they
\* stay possible; starting and stopping by hand may happen, nothing forces it.
LiveFramerates == {DefaultFramerate, 1001}

LiveSettings ==
    {[startTick |-> s, endTick |-> e, outputFormat |-> "Video",
      videoCodec |-> "Prores4444", framerate |-> f, passes |-> Passes(n)] :
        s \in 0..MaxTick, e \in 0..MaxTick, f \in LiveFramerates, n \in 0..MaxPasses}

\* the frames a session captures until the check ends it: one per tick up
\* to the first tick past endTick, or every pass per tick and pass 0 of the
\* last
FitsFrameBound(s) ==
    LET n == Cardinality(DOMAIN s.passes)
    IN  (IF n = 0 THEN s.endTick - s.startTick + 1
         ELSE n * (s.endTick - s.startTick) + 1) <= MaxFrames

InitLive ==
    \E s \in LiveSettings :
        /\ s.startTick < s.endTick
        /\ FitsFrameBound(s)
        /\ InitWith(s, {}, "idle")

LiveCaptureFrame == capturedFrameCount < MaxFrames /\ CaptureFrameCall("ok")

NextLive ==
    \/ StartCapture
    \/ StopCapture
    \/ ToggleCapture
    \/ GameFrame
    \/ PrepareFrame
    \/ LiveCaptureFrame
    \/ EndFrame

LoopFairness ==
    /\ WF_vars(GameFrame)
    /\ WF_vars(PrepareFrame)
    /\ WF_vars(LiveCaptureFrame)
    /\ WF_vars(EndFrame)

SpecLive == InitLive /\ [][NextLive]_vars /\ LoopFairness

TypeOK ==
    /\ isCapturing \in BOOLEAN
    /\ pipe \in {NULL} \cup PipeIds
    /\ tempSurface \in {NULL} \cup GpuIds
    /\ downsampledRenderTarget \in {NULL} \cup GpuIds
    /\ backBuffer \in {NULL, BackBufferSurface}
    /\ bbRefs \in 0..MaxRefs
    /\ capturedFrameCount \in 0..MaxFrames
    /\ tick \in 0..(MaxTick + 1)

\* ---- what the claims speak of
StartTick == captureSettings.startTick
EndTick == captureSettings.endTick
PassPipeOf(i) == captureSettings.passes[i].pipe
HeldPipes == ({pipe} \cup {PassPipeOf(i) : i \in DOMAIN captureSettings.passes}) \ {NULL}
HeldGpu == {tempSurface, downsampledRenderTarget, depthSurface, depthShader} \ {NULL}
AllNull ==
    /\ pipe = NULL
    /\ \A i \in DOMAIN captureSettings.passes : PassPipeOf(i) = NULL
    /\ tempSurface = NULL
    /\ backBuffer = NULL
    /\ downsampledRenderTarget = NULL
    /\ depthSurface = NULL
    /\ depthShader = NULL
FrameBytes == NativeWidth * NativeHeight * 4
StartFailed == lastResult \in {"failed", "noencoder", "nopipe"}

\* C1: a StartCapture called with startTick >= endTick leaves isCapturing
\* false and acquires nothing: no surface, no render target, no backbuffer
\* reference and no pipe; no pointer of the manager changes.
C1_GuardRejectsBeforeAllocation ==
    [][(StartTick >= EndTick /\ lastOp' = "StartCapture")
        => /\ isCapturing' = FALSE
           /\ UNCHANGED <<pipe, captureSettings, tempSurface, backBuffer,
                          downsampledRenderTarget, openPipes, liveGpu, bbRefs>>]_vars

C1_Witness ==
    /\ lastOp = "StartCapture"
    /\ lastResult = "rejected"
    /\ StartTick >= EndTick

\* C2: StopCapture, from any state, leaves isCapturing and framePrepared
\* false, every pipe it held closed and every pointer null, every GPU
\* resource it held released; a second call right after it changes nothing
\* and closes or releases nothing again.
C2_StopCaptureIdempotent ==
    [][(lastOp' = "StopCapture")
        => /\ ~isCapturing' /\ ~framePrepared'
           /\ AllNull'
           /\ openPipes' = openPipes \ HeldPipes
           /\ liveGpu' = liveGpu \ HeldGpu
           /\ bbRefs' = IF backBuffer # NULL THEN bbRefs - 1 ELSE bbRefs
           /\ ~misuse'
           /\ lastOp = "StopCapture" => UNCHANGED <<managerVars, worldVars, misuse>>]_vars

C2_Witness ==
    /\ lastOp = "StopCapture"
    /\ lastResult = "again"
    /\ capturedFrameCount > 0
    /\ PassCount > 1

\* C3: a StartCapture that passes the tick guard and fails at a later step
\* ends Idle with every pointer null, and leaves open nothing that was not
\* open before it: the pipes it opened are closed, the surface, render
\* target and backbuffer reference it acquired are released.
C3_FailedStartRollsBack ==
    [][(lastOp' = "StartCapture" /\ StartFailed')
        => /\ ~isCapturing'
           /\ AllNull'
           /\ openPipes' \subseteq openPipes
           /\ liveGpu' \subseteq liveGpu
           /\ bbRefs' <= bbRefs
           /\ ~misuse']_vars

C3_Witness ==
    /\ lastOp = "StartCapture"
    /\ StartFailed
    /\ opened >= 1
    /\ PassCount >= 2
    /\ openPipes = {}
    /\ liveGpu = {}
    /\ bbRefs = 0

\* C4: while isCapturing the staging surface and the render target are
\* live and the output pipes are open (the anchor pipe without passes, the
\* pipe of every pass otherwise); isCapturing becomes true only in a
\* StartCapture whose every step succeeded and that opened all its pipes.
ResourcesReady ==
    /\ tempSurface \in liveGpu
    /\ downsampledRenderTarget \in liveGpu
    /\ tempSurface # downsampledRenderTarget
    /\ IF PassCount = 0
       THEN pipe \in openPipes
       ELSE /\ \A i \in DOMAIN captureSettings.passes : PassPipeOf(i) \in openPipes
            /\ \A i, j \in DOMAIN captureSettings.passes :
                  i # j => PassPipeOf(i) # PassPipeOf(j)

C4_CapturingHasResources ==
    /\ [](isCapturing => ResourcesReady)
    /\ [][(isCapturing' /\ (~isCapturing \/ lastOp' = "StartCapture"))
           => /\ lastOp' = "StartCapture"
              /\ lastResult' = "ok"
              /\ opened' = PipesWanted]_vars

C4_Witness ==
    /\ isCapturing
    /\ PassCount >= 2
    /\ capturedFrameCount >= 1

\* C5 (as amended): the single-stream run writes exactly
\* E2EEndTick - E2EStartTick + 1 frames (91 for 10..100), one at each tick
\* from E2EStartTick + 1 to E2EEndTick + 1, each of width*height*4 bytes to
\* the anchor pipe, and stops in the capture at tick E2EEndTick + 1: the frame
\* of the first tick past the end is written before the session stops.
C5_EndToEndFrameCount ==
    /\ (lastOp = "CaptureFrame" /\ ~isCapturing)
          => /\ framesWritten = E2EEndTick - E2EStartTick + 1
             /\ capturedFrameCount = E2EEndTick - E2EStartTick + 1
             /\ tick = E2EEndTick + 1
    /\ lastOp = "CaptureFrame"
          => /\ lastWrite.bytes = FrameBytes
             /\ lastWrite.pipe \in PipeIds
             /\ isCapturing => lastWrite.pipe = pipe
             /\ framesWritten = tick - E2EStartTick
    /\ (isCapturing /\ pc = "idle") => tick <= E2EEndTick
    /\ (~isCapturing /\ framesWritten > 0) => framesWritten = E2EEndTick - E2EStartTick + 1

C5_Witness ==
    /\ lastOp = "CaptureFrame"
    /\ ~isCapturing
    /\ tick = E2EEndTick + 1
    /\ framesWritten > 0

\* C5 as stated: the run has written exactly 90 frames when it stops.
C5_Original ==
    (lastOp = "CaptureFrame" /\ ~isCapturing) => framesWritten = 90

\* the integer quotient 1000 / f, from its defining inequalities
MsPerFrame(f) == CHOOSE q \in 0..1000 : q * f <= 1000 /\ (q + 1) * f > 1000

\* C6 (as amended): OnGameFrame returns 1000/framerate (integer division) on
\* the first pass of a cycle, capturedFrameCount mod passCount = 0, and 0 on
\* every other pass: 33,0,0,33,0,0 for 3 passes at 30 fps; without passes it
\* returns 1000/framerate always.
C6_OnGameFrameCadence ==
    (pc = "prepare" /\ isCapturing)
       => /\ PassCount = 0 => hold = MsPerFrame(captureSettings.framerate)
          /\ PassCount > 0 =>
                hold = IF \E j \in 0..capturedFrameCount : capturedFrameCount = j * PassCount
                       THEN MsPerFrame(captureSettings.framerate) ELSE 0
          /\ (PassCount = 3 /\ captureSettings.framerate = 30 /\ capturedFrameCount <= 5)
                => hold = <<33, 0, 0, 33, 0, 0>>[capturedFrameCount + 1]
          /\ (PassCount = 0 /\ captureSettings.framerate = 30) => hold = 33

C6_Witness ==
    /\ pc = "prepare"
    /\ isCapturing
    /\ PassCount = 3
    /\ captureSettings.framerate = 30
    /\ capturedFrameCount = 5
    /\ hold = 0

\* C6 as stated: 0 on every pass but the last of a cycle: 0,0,33,0,0,33 for
\* 3 passes at 30 fps.
C6_Original ==
    (pc = "prepare" /\ isCapturing /\ PassCount = 3 /\ captureSettings.framerate = 30
        /\ capturedFrameCount <= 5)
       => hold = <<0, 0, 33, 0, 0, 33>>[capturedFrameCount + 1]

\* C7: with 2 passes the k-th PrepareFrame/CaptureFrame pair of a session
\* (k = 0,1,2,...) shows the elements of pass k mod 2 and its CaptureFrame
\* draws and writes for that same pass; OnGameFrame grants time exactly
\* before the even-indexed pairs.
C7_TwoPassAlternation ==
    /\ []((pc = "capture" /\ isCapturing /\ PassCount = 2)
            => visibleElements = captureSettings.passes[pairs % 2].elements)
    /\ []((pc \in {"prepare", "capture"} /\ isCapturing /\ PassCount = 2)
            => (hold > 0 <=> pairs % 2 = 0))
    /\ [][(lastOp' = "CaptureFrame" /\ PassCount = 2)
            => /\ pairs' = pairs + 1
               /\ visibleElements = captureSettings.passes[pairs % 2].elements
               /\ drawnPass' = pairs % 2
               /\ framesWritten' > framesWritten
                     => lastWrite'.pipe = PassPipeOf(pairs % 2)]_vars

C7_Witness ==
    /\ lastOp = "CaptureFrame"
    /\ PassCount = 2
    /\ pairs = 3
    /\ drawnPass = 0
    /\ lastWrite.pipe # NULL
    /\ isCapturing

C9_OneFrameToOnePipe ==
    [][(lastOp' = "CaptureFrame" /\ lastResult' = "ok")
        => /\ capturedFrameCount' = capturedFrameCount + 1
           /\ framesWritten' = framesWritten + 1
           /\ lastWrite'.bytes = FrameBytes
           /\ lastWrite'.pipe = IF PassCount > 0
                                THEN PassPipeOf(capturedFrameCount % PassCount)
                                ELSE pipe
           /\ lastWrite'.pipe \in openPipes
           /\ ~misuse']_vars

C9_Witness ==
    /\ lastOp = "CaptureFrame"
    /\ lastResult = "ok"
    /\ PassCount = 3
    /\ capturedFrameCount = 5
    /\ isCapturing
    /\ lastWrite.pipe = PassPipeOf(1)

\* C10: after a frame is written and the surface unlocked, the session
\* stops exactly when rewinding is off and the tick is greater than endTick;
\* it goes on at tick = endTick and at any tick while rewinding.
C10_TerminationCheck ==
    [][(lastOp' = "CaptureFrame" /\ lastResult' = "ok")
        => (~isCapturing' <=> (~rewinding /\ tick > EndTick))]_vars

C10_Witness ==
    /\ lastOp = "CaptureFrame"
    /\ lastResult = "ok"
    /\ rewinding
    /\ tick > EndTick
    /\ isCapturing

\* C11 (as stated; the code does not keep it): a StartCapture called while
\* isCapturing opens no pipe and acquires no surface, render target or
\* backbuffer reference, so every open pipe and every live GPU resource stays
\* referenced by the manager's pointers.
C11_StartWhileCapturingAcquiresNothing ==
    [][(isCapturing /\ lastOp' = "StartCapture")
        => /\ opened' = 0
           /\ openPipes' \subseteq openPipes
           /\ liveGpu' \subseteq liveGpu
           /\ bbRefs' <= bbRefs
           /\ openPipes' \subseteq HeldPipes'
           /\ liveGpu' \subseteq HeldGpu']_vars

\* a second StartCapture succeeded over a running session: the pipe and the
\* surfaces of the first are still open and no pointer refers to them
C11_Leak ==
    /\ lastOp = "StartCapture"
    /\ lastResult = "ok"
    /\ isCapturing
    /\ openPipes \ HeldPipes # {}
    /\ liveGpu \ HeldGpu # {}

\* C12: a StartCapture that passes the tick guard and the GPU allocations
\* and finds no encoder executable sets ffmpegNotFound, opens no pipe, rolls
\* back through StopCapture and ends Idle; once set the flag stays set
\* through every operation (StopCapture, ToggleCapture, rejected starts,
\* starts that fail before the test) and is cleared only by a StartCapture
\* that finds the executable, which always clears it.
C12_FfmpegNotFoundSticky ==
    [][/\ (lastOp' = "StartCapture" /\ lastResult' = "noencoder")
            => /\ ffmpegNotFound'
               /\ opened' = 0
               /\ openPipes' \subseteq openPipes
               /\ ~isCapturing'
               /\ AllNull'
       /\ (ffmpegNotFound /\ ~ffmpegNotFound')
            => (lastOp' = "StartCapture" /\ lastResult' \in {"ok", "nopipe"})
       /\ (lastOp' = "StartCapture" /\ lastResult' \in {"ok", "nopipe"})
            => ~ffmpegNotFound'
       /\ (~ffmpegNotFound /\ ffmpegNotFound')
            => (lastOp' = "StartCapture" /\ lastResult' = "noencoder")]_vars

\* the flag survived a later start attempt that failed before the test
C12_Witness ==
    /\ ffmpegNotFound
    /\ lastOp = "StartCapture"
    /\ lastResult = "failed"
    /\ ~isCapturing

\* C13: a CaptureFrame whose copy, resolve, lock or unlock fails ends the
\* session through StopCapture: Idle, every pipe the manager held closed,
\* every GPU resource it held released, every pointer null.  After a copy,
\* resolve or lock failure nothing was written and capturedFrameCount is
\* unchanged; the frames written before are never taken back.
C13_GpuFailureAborts ==
    [][(lastOp' = "CaptureFrame" /\ lastResult' \in {"failed", "unlock"})
        => /\ ~isCapturing' /\ ~framePrepared'
           /\ AllNull'
           /\ openPipes' = openPipes \ HeldPipes
           /\ liveGpu' = liveGpu \ HeldGpu
           /\ bbRefs' = IF backBuffer # NULL THEN bbRefs - 1 ELSE bbRefs
           /\ framesWritten' >= framesWritten
           /\ lastResult' = "failed"
                 => /\ capturedFrameCount' = capturedFrameCount
                    /\ framesWritten' = framesWritten
                    /\ lastWrite' = NoWrite]_vars

C13_Witness ==
    /\ lastOp = "CaptureFrame"
    /\ lastResult = "failed"
    /\ framesWritten >= 2
    /\ PassCount >= 2
    /\ ~isCapturing

\* the commands of a StartCapture are built for the passes 0, 1, 2, ... in
\* order: commands[j] is the command of pass j - 1.  Built: the last operation
\* was a StartCapture that reached the command builder.
Format == captureSettings.outputFormat
Codec == captureSettings.videoCodec
Built == lastOp = "StartCapture" /\ lastResult \in {"ok", "nopipe", "threw"}

\* C14: the file of a Video command for pass p is "Pass p.mov" if the
\* directory has no such file, else "Pass p(n).mov" for the least n >= 1 the
\* directory has no file of; it is never the name of a file in the directory.
C14_FileNameNonColliding ==
    (Built /\ Format = "Video")
       => \A j \in DOMAIN commands :
             LET p == j - 1
                 name(n) == IF n = 0 THEN "Pass " \o ToString(p) \o ".mov"
                            ELSE "Pass " \o ToString(p) \o "(" \o ToString(n) \o ").mov"
             IN  /\ commands[j].file \notin files
                 /\ \E n \in 0..(MaxSuffix + 1) :
                       /\ commands[j].file = name(n)
                       /\ \A m \in 0..(n - 1) : name(m) \in files
                 /\ (p = 0 /\ "Pass 0.mov" \notin files)
                       => commands[j].file = "Pass 0.mov"
                 /\ (p = 0 /\ "Pass 0.mov" \in files /\ "Pass 0(1).mov" \notin files)
                       => commands[j].file = "Pass 0(1).mov"
                 /\ (p = 0 /\ {"Pass 0.mov", "Pass 0(1).mov"} \subseteq files
                       /\ "Pass 0(2).mov" \notin files)
                       => commands[j].file = "Pass 0(2).mov"

C14_Witness ==
    /\ Built
    /\ Format = "Video"
    /\ Codec = "Prores422"
    /\ Len(commands) = 2
    /\ commands[1].file = "Pass 0(2).mov"
    /\ commands[2].file = "Pass 1(1).mov"
    /\ "Pass 0(1).mov" \in files

\* C15 (as stated; the code does not keep it): a StartCapture with output
\* format CameraData hands no command to _popen and opens no pipe, with or
\* without passes.
C15_CameraDataBypassesEncoder ==
    (lastOp = "StartCapture" /\ Format = "CameraData")
       => /\ commands = <<>>
          /\ opened = 0
          /\ HeldPipes = {}

\* a CameraData session runs over pipes opened with the empty command
C15_EmptyCommandPiped ==
    /\ lastOp = "StartCapture"
    /\ Format = "CameraData"
    /\ isCapturing
    /\ PassCount = 2
    /\ opened = 2
    /\ \A j \in DOMAIN commands : commands[j] = EmptyCommand

\* C16 (as stated; the code does not keep it): for output format Video every
\* codec value yields a command: the five listed codecs get the profiles
\* 5,4,3,2,1, and any other value, out of range or absent, gets profile 4
\* with pixel format yuv444p10le and a warning.
C16_UnsupportedCodecDefaults ==
    (Built /\ Format = "Video")
       => /\ lastResult # "threw"
          /\ commands # <<>>
          /\ \A j \in DOMAIN commands :
                /\ commands[j].kind = "prores"
                /\ commands[j].profile =
                      CASE Codec = "Prores4444XQ" -> 5
                        [] Codec = "Prores4444"   -> 4
                        [] Codec = "Prores422HQ"  -> 3
                        [] Codec = "Prores422"    -> 2
                        [] Codec = "Prores422LT"  -> 1
                        [] OTHER                  -> 4
                /\ Codec \notin ListedCodecs
                      => /\ commands[j].pixelFormat = "yuv444p10le"
                         /\ commands[j].warned

\* the absent codec: StartCapture is left by the exception, holding what it
\* had acquired
C16_AbsentCodecThrows ==
    /\ lastOp = "StartCapture"
    /\ lastResult = "threw"
    /\ Format = "Video"
    /\ Codec = "Absent"
    /\ ~isCapturing
    /\ tempSurface # NULL
    /\ commands = <<>>

\* C17: capturedFrameCount decreases only in a StartCapture that passed the
\* tick guard, which sets it to 0; a rejected StartCapture, StopCapture,
\* ToggleCapture as a stop, PrepareFrame, OnGameFrame and every other
\* operation leave it unchanged, and CaptureFrame leaves it or adds 1.
C17_FrameCountMonotonic ==
    [][/\ capturedFrameCount' < capturedFrameCount
            => (lastOp' = "StartCapture" /\ lastResult' # "rejected")
       /\ (lastOp' = "StartCapture" /\ lastResult' # "rejected")
            => capturedFrameCount' = 0
       /\ (lastOp' = "StartCapture" /\ lastResult' = "rejected")
            => capturedFrameCount' = capturedFrameCount
       /\ lastOp' = "CaptureFrame"
            => capturedFrameCount' \in {capturedFrameCount, capturedFrameCount + 1}
       /\ lastOp' \notin {"StartCapture", "CaptureFrame"}
            => capturedFrameCount' = capturedFrameCount]_vars

\* a session stopped by hand keeps its count
C17_Witness ==
    /\ lastOp = "StopCapture"
    /\ lastResult = "stopped"
    /\ capturedFrameCount >= 3
    /\ ~isCapturing

\* C18 (as stated; the code does not keep it): between two operations the
\* manager holds no backbuffer reference: every query of the backbuffer is
\* followed by its release within the same operation.
C18_BackBufferNeverHeld ==
    /\ backBuffer = NULL
    /\ bbRefs = 0

\* the reference StartCapture took is still held after two captured frames
C18_HeldAcrossFrames ==
    /\ lastOp = "CaptureFrame"
    /\ isCapturing
    /\ capturedFrameCount >= 2
    /\ backBuffer = BackBufferSurface
    /\ bbRefs >= 1

\* C19 (as stated; the code does not keep it): a session with n >= 1 passes
\* that the tick-range check ends, every GPU call having succeeded, ends on a
\* cycle boundary: capturedFrameCount mod n = 0, every pass has as many frames
\* as every other.
C19_StopsOnCycleBoundary ==
    [][(lastOp' = "CaptureFrame" /\ lastResult' = "ok" /\ ~isCapturing' /\ PassCount >= 1)
        => capturedFrameCount' % PassCount = 0]_vars

\* two passes, never rewinding: the session ended by the check after the
\* third frame, pass 0 having two frames and pass 1 one
C19_StoppedMidCycle ==
    /\ lastOp = "CaptureFrame"
    /\ lastResult = "ok"
    /\ ~isCapturing
    /\ ~rewinding
    /\ PassCount = 2
    /\ capturedFrameCount = 3
    /\ framesWritten = 3
    /\ drawnPass = 0

\* C20 (as stated; the code does not keep it): a Capturing session whose
\* render loop keeps running, with every GPU call succeeding and rewinding
\* off, becomes Idle; and isCapturing turns false only in StopCapture, in
\* ToggleCapture as a stop, or in CaptureFrame (the tick-range check or a
\* GPU failure).
C20_EventuallyIdle ==
    /\ isCapturing ~> ~isCapturing
    /\ [][(isCapturing /\ ~isCapturing')
            => lastOp' \in {"StopCapture", "CaptureFrame"}]_vars

\* a single-stream session above 1000 fps: OnGameFrame granted the frame 0
\* ms, the timeline does not move
C20_TimelineHeld ==
    /\ isCapturing
    /\ pc = "prepare"
    /\ PassCount = 0
    /\ captureSettings.framerate > 1000
    /\ hold = 0
    /\ capturedFrameCount >= 3
    /\ tick = StartTick

====
